---- MODULE Spec2Model ----
(***************************************************************************)
(* GhanaMarket: the product listing of HomePage (loadProducts) and the     *)
(* product form of ProductFormPage (loadProduct, addImage, removeImage,    *)
(* handleSubmit), both talking to one shared products table.               *)
(*                                                                         *)
(* Text that the code inspects character by character (titles, search      *)
(* text, the price and stock drafts) is a sequence of one-character        *)
(* strings; text that is only compared as a whole (category slugs, status, *)
(* condition, image URLs) is a string.                                     *)
(***************************************************************************)
EXTENDS Integers, Sequences, FiniteSets, TLC

(***************************************************************************)
(* Bounds of the model.                                                    *)
(***************************************************************************)
\* loadProducts requests issued by one HomePage
MaxRequests == 3
\* submits (blocked or sent) of one ProductFormPage
MaxSubmits == 1
\* edits of the form's fields by one ProductFormPage
MaxEdits == 2

(***************************************************************************)
(* Characters and text.                                                    *)
(***************************************************************************)
Digits == <<"0", "1", "2", "3", "4", "5", "6", "7", "8", "9">>

IsDigit(c) == \E i \in 1..10 : Digits[i] = c

DigitVal(c) == (CHOOSE i \in 1..10 : Digits[i] = c) - 1

UpperCase ==
    <<"A", "B", "C", "D", "E", "F", "G", "H", "I", "J", "K", "L", "M",
      "N", "O", "P", "Q", "R", "S", "T", "U", "V", "W", "X", "Y", "Z">>

LowerCase ==
    <<"a", "b", "c", "d", "e", "f", "g", "h", "i", "j", "k", "l", "m",
      "n", "o", "p", "q", "r", "s", "t", "u", "v", "w", "x", "y", "z">>

\* the case folding of ILIKE
Lower(c) ==
    IF \E i \in 1..26 : UpperCase[i] = c
    THEN LowerCase[CHOOSE i \in 1..26 : UpperCase[i] = c]
    ELSE c

IsSpace(c) == c = " "

RECURSIVE TrimStart(_)
TrimStart(s) ==
    IF s # <<>> /\ IsSpace(Head(s)) THEN TrimStart(Tail(s)) ELSE s

RECURSIVE DigitRun(_)
\* the longest prefix of s made of decimal digits
DigitRun(s) ==
    IF s # <<>> /\ IsDigit(Head(s)) THEN <<Head(s)>> \o DigitRun(Tail(s)) ELSE <<>>

Drop(s, n) == SubSeq(s, n + 1, Len(s))

RECURSIVE DigitsValue(_)
DigitsValue(ds) ==
    IF ds = <<>> THEN 0
    ELSE 10 * DigitsValue(SubSeq(ds, 1, Len(ds) - 1)) + DigitVal(ds[Len(ds)])

RECURSIVE Pow10(_)
Pow10(n) == IF n = 0 THEN 1 ELSE 10 * Pow10(n - 1)

(***************************************************************************)
(* JavaScript numbers that are decimal fractions: m / 10^e, kept           *)
(* normalised (e is the least exponent that represents the value), or NaN. *)
(***************************************************************************)
NaN == [nan |-> TRUE, m |-> 0, e |-> 0]

RECURSIVE Normal(_, _)
Normal(m, e) ==
    IF e > 0 /\ m % 10 = 0 THEN Normal(m \div 10, e - 1)
    ELSE [nan |-> FALSE, m |-> m, e |-> e]

Num(m, e) == Normal(m, e)

IsNaN(x) == x.nan

\* the decimal literal at the front of t: [ok, m, e]; digits, then
\* optionally "." and digits; ".5" and "5." are literals too
DecimalPrefix(t) ==
    LET ip == DigitRun(t)
        r1 == Drop(t, Len(ip))
        dot == r1 # <<>> /\ Head(r1) = "."
        fp == IF dot THEN DigitRun(Tail(r1)) ELSE <<>>
    IN  [ok |-> Len(ip) + Len(fp) > 0,
         m |-> DigitsValue(ip \o fp),
         e |-> Len(fp)]

\* parseFloat(s): leading white space skipped, an optional sign, the longest
\* decimal literal; NaN when there is none
ParseFloat(s) ==
    LET t == TrimStart(s)
        neg == t # <<>> /\ Head(t) = "-"
        sgn == t # <<>> /\ Head(t) \in {"-", "+"}
        d == DecimalPrefix(IF sgn THEN Tail(t) ELSE t)
    IN  IF d.ok THEN Num(IF neg THEN 0 - d.m ELSE d.m, d.e) ELSE NaN

\* parseInt(s): leading white space skipped, an optional sign, the longest
\* run of digits (radix 10); NaN when there is none
ParseInt(s) ==
    LET t == TrimStart(s)
        neg == t # <<>> /\ Head(t) = "-"
        sgn == t # <<>> /\ Head(t) \in {"-", "+"}
        ds == DigitRun(IF sgn THEN Tail(t) ELSE t)
    IN  IF ds = <<>> THEN NaN
        ELSE Num(IF neg THEN 0 - DigitsValue(ds) ELSE DigitsValue(ds), 0)

RECURSIVE NatDigits(_)
NatDigits(n) ==
    IF n < 10 THEN <<Digits[n + 1]>> ELSE NatDigits(n \div 10) \o <<Digits[(n % 10) + 1]>>

RECURSIVE PadLeft(_, _)
PadLeft(ds, n) == IF Len(ds) >= n THEN ds ELSE PadLeft(<<"0">> \o ds, n)

\* Number.prototype.toString() of a decimal fraction: the shortest decimal
\* notation, "150.5" for 150.50
NumToString(x) ==
    IF x.nan THEN <<"N", "a", "N">>
    ELSE LET a == IF x.m < 0 THEN 0 - x.m ELSE x.m
             p == Pow10(x.e)
             sign == IF x.m < 0 THEN <<"-">> ELSE <<>>
             frac == IF x.e = 0 THEN <<>>
                     ELSE <<".">> \o PadLeft(NatDigits(a % p), x.e)
         IN  sign \o NatDigits(a \div p) \o frac


(***************************************************************************)
(* The products and categories tables.  A product row carries the columns  *)
(* the two pages name: HomePage filters on status and category_id and      *)
(* orders on created_at; ProductFormPage reads and writes title,           *)
(* description, price, category, stock_count, condition, images and        *)
(* updated_at and inserts seller_id and status.  Row i of the table has    *)
(* id i.                                                                   *)
(***************************************************************************)
Null == "null"

Sellers == {"S1", "S2"}

\* the seller of the other sessions that write to the same table
OtherSeller == "S9"

ImageUrl == "https://img/1.jpg"

Txt_Phone == <<"P", "h", "o", "n", "e">>
Txt_PhoneCase == <<"P", "h", "o", "n", "e", " ", "c", "a", "s", "e">>
Txt_Laptop == <<"L", "a", "p", "t", "o", "p">>
Txt_Desc == <<"n", "e", "w">>

\* categories rows: id, parent_id, display_order
CategoryTable ==
    << [id |-> "fashion", parent_id |-> Null, display_order |-> 2],
       [id |-> "electronics", parent_id |-> Null, display_order |-> 1],
       [id |-> "phones", parent_id |-> "electronics", display_order |-> 1] >>

SeedRow(id, seller, title, cat, status, created, nimages) ==
    [id |-> id, seller_id |-> seller, title |-> title, description |-> Txt_Desc,
     price |-> Num(20, 0), category |-> cat, category_id |-> cat,
     stock_count |-> Num(1, 0), condition |-> "good",
     images |-> [i \in 1..nimages |-> ImageUrl], status |-> status,
     created_at |-> created, updated_at |-> created]

\* a catalogue of four active products, two of them created at the same
\* instant, and one inactive product
CatalogStore ==
    << SeedRow(1, "S1", Txt_PhoneCase, "electronics", "active", 1, 0),
       SeedRow(2, "S1", Txt_Phone, "electronics", "active", 2, 1),
       SeedRow(3, "S2", Txt_Laptop, "electronics", "active", 2, 0),
       SeedRow(4, "S2", Txt_Phone, "fashion", "active", 3, 0),
       SeedRow(5, "S2", Txt_Phone, "electronics", "inactive", 3, 0) >>

\* a table written by another client: one product holds six images
LegacyStore ==
    << SeedRow(1, "S1", Txt_Phone, "electronics", "active", 1, 6),
       SeedRow(2, "S2", Txt_Laptop, "electronics", "active", 2, 5) >>

EmptyStore == << >>

RECURSIVE Latest(_)
\* the latest created_at of a table, 0 for the empty table
Latest(rows) ==
    IF rows = <<>> THEN 0
    ELSE LET t == Latest(Tail(rows))
         IN  IF Head(rows).created_at > t THEN Head(rows).created_at ELSE t

(***************************************************************************)
(* The query loadProducts builds, and what the store answers to it.        *)
(***************************************************************************)
Limit == 50

\* JavaScript truthiness of a string-or-null, and of a text
Truthy(v) == v # Null /\ v # ""

TruthyText(t) == t # <<>>

RECURSIVE LikeMatch(_, _)
\* SQL LIKE on case-folded text: % matches any run, _ any one character
LikeMatch(p, s) ==
    IF p = <<>> THEN s = <<>>
    ELSE IF Head(p) = "%"
         THEN LikeMatch(Tail(p), s) \/ (s # <<>> /\ LikeMatch(p, Tail(s)))
         ELSE /\ s # <<>>
              /\ (Head(p) = "_" \/ Lower(Head(p)) = Lower(Head(s)))
              /\ LikeMatch(Tail(p), Tail(s))

\* column ILIKE pattern
ILike(text, pattern) == LikeMatch(pattern, text)

\* `%${searchQuery}%`
SearchPattern(q) == <<"%">> \o q \o <<"%">>

\* the or(...) filter is a comma-separated list: a comma inside the search
\* text makes the filter string one the store cannot parse
FilterParses(q) == \A i \in 1..Len(q) : q[i] # ","

\* ProductQuery asking for a status no product has
ProductQueryPublished(cat, q) ==
    [status |-> "published",
     order |-> "created_at.desc",
     limit |-> Limit,
     category_id |-> IF Truthy(cat) THEN cat ELSE Null,
     search |-> IF TruthyText(q) THEN q ELSE <<>>]

\* the query of loadProducts for the filter state (cat, q)
ProductQuery(cat, q) ==
    [status |-> "active",
     order |-> "created_at.desc",
     limit |-> Limit,
     category_id |-> IF Truthy(cat) THEN cat ELSE Null,
     search |-> IF TruthyText(q) THEN q ELSE <<>>]

\* Matches with the or(...) filter replacing the category filter instead of
\* joining it
MatchesSearchOverrides(row, query) ==
    /\ row.status = query.status
    /\ IF query.search # <<>>
       THEN \/ ILike(row.title, SearchPattern(query.search))
            \/ ILike(row.description, SearchPattern(query.search))
       ELSE query.category_id # Null => row.category_id = query.category_id

\* the rows a query selects, before order and limit
Matches(row, query) ==
    /\ row.status = query.status
    /\ (query.category_id # Null => row.category_id = query.category_id)
    /\ (query.search # <<>> =>
            \/ ILike(row.title, SearchPattern(query.search))
            \/ ILike(row.description, SearchPattern(query.search)))

Matching(rows, query) == {i \in 1..Len(rows) : Matches(rows[i], query)}

Min(a, b) == IF a < b THEN a ELSE b

RECURSIVE Arrangements(_, _)
\* every sequence of n distinct elements of S
Arrangements(S, n) ==
    IF n = 0 THEN {<<>>}
    ELSE UNION {{<<x>> \o s : s \in Arrangements(S \ {x}, n - 1)} : x \in S}

\* the ids of the rows that match the query, latest row first.  The table
\* holds its rows in the order of their insertion, so created_at never
\* decreases along it (Chronological).
MatchingDesc(rows, query) ==
    SelectSeq([i \in 1..Len(rows) |-> Len(rows) + 1 - i],
              LAMBDA j : Matches(rows[j], query))

\* rows d[j] and d[j + 1] were created at the same instant
TiedAt(rows, d, j) ==
    j < Len(d) /\ rows[d[j]].created_at = rows[d[j + 1]].created_at

RECURSIVE RunEnd(_, _, _)
\* the last position of the run of rows of one instant that starts at j
RunEnd(rows, d, j) ==
    IF TiedAt(rows, d, j) THEN RunEnd(rows, d, j + 1) ELSE j

RECURSIVE OrderedLimited(_, _, _, _, _)
\* ORDER BY created_at DESC LIMIT k over d[i..], appended to the rows already
\* taken: every order the store may produce.  Rows of different instants
\* keep their order; the rows of one instant come in any order.
OrderedLimited(rows, d, i, k, taken) ==
    IF k = 0 \/ i > Len(d) THEN {taken}
    ELSE LET last == Min(Len(d), i + k - 1)
             ties == {j \in i..last : TiedAt(rows, d, j)}
         IN  IF ties = {} THEN {taken \o SubSeq(d, i, last)}
             ELSE LET f == CHOOSE j \in ties : \A j2 \in ties : j <= j2
                      hi == RunEnd(rows, d, f)
                      g == {d[j] : j \in f..hi}
                      pre == SubSeq(d, i, f - 1)
                      n == Min(k - Len(pre), Cardinality(g))
                  IN  UNION {OrderedLimited(rows, d, hi + 1, k - Len(pre) - n,
                                            taken \o pre \o p) :
                                p \in Arrangements(g, n)}

\* the data the store may answer to a query: sequences of ids
SelectProducts(rows, query) ==
    IF FilterParses(query.search)
    THEN OrderedLimited(rows, MatchingDesc(rows, query), 1, query.limit, <<>>)
    ELSE {}

\* { data, error } of the awaited query: data is null on any failure
QueryOutcomes(rows, query) ==
    {[ok |-> FALSE, data |-> <<>>]}
        \cup {[ok |-> TRUE, data |-> d] : d \in SelectProducts(rows, query)}

\* categories .is('parent_id', null).order('display_order')
RECURSIVE ByDisplayOrder(_)
ByDisplayOrder(ids) ==
    IF ids = {} THEN <<>>
    ELSE LET c == CHOOSE x \in ids :
                      \A y \in ids : CategoryTable[x].display_order
                                        <= CategoryTable[y].display_order
         IN  <<CategoryTable[c].id>> \o ByDisplayOrder(ids \ {c})

TopLevelCategories ==
    ByDisplayOrder({i \in 1..Len(CategoryTable) : CategoryTable[i].parent_id = Null})


(***************************************************************************)
(* State.                                                                  *)
(***************************************************************************)
VARIABLES
    \* the store
    store,              \* the products table, row i has id i
    now,                \* the current instant
    ownerPolicy,        \* the storage layer lets only the owner update a row
    batched,            \* other sellers have created their products
    \* HomePage
    mounted,            \* the mount effects have run
    categories,         \* useState<Category[]>: ids of the loaded categories
    products,           \* useState<Product[]>: ids of the listed products
    loading,            \* useState(true)
    selectedCategory,   \* useState<string | null>(null)
    searchQuery,        \* useState('')
    requests,           \* the loadProducts calls awaiting their query
    catPending,         \* loadCategories awaits its query
    sent,               \* log: the loadProducts calls made, in order
    arrivals,           \* log: the completed calls, in order of completion
    \* ProductFormPage
    profile,            \* useAuth().profile: the signed-in seller's id or Null
    productId,          \* the productId prop, 0 when absent
    formLoading,        \* useState(!!productId)
    submitting,         \* useState(false)
    message,            \* useState<{type, text} | null>(null)
    formData,           \* useState({title, ..., images})
    imageInput,         \* useState('')
    loadPending,        \* loadProduct awaits its query
    write,              \* the insert or update handleSubmit awaits
    onComplete,         \* "none", "scheduled" (setTimeout) or "called"
    submits,            \* submit events so far
    outcome,            \* what the last submit event came to
    writes,             \* log: the writes the store has answered
    edits               \* field edits so far

storeVars == <<store, now, ownerPolicy, batched>>

homeVars ==
    <<mounted, categories, products, loading, selectedCategory, searchQuery,
      requests, catPending, sent, arrivals>>

formVars ==
    <<profile, productId, formLoading, submitting, message, formData,
      imageInput, loadPending, write, onComplete, submits, outcome, writes,
      edits>>

vars == <<storeVars, homeVars, formVars>>

NoMessage == [type |-> "none", text |-> ""]

NoWrite == [kind |-> "none"]

EmptyForm ==
    [title |-> <<>>, description |-> <<>>, price |-> <<>>, category |-> "",
     stock_count |-> <<>>, condition |-> "new", images |-> <<>>]

(***************************************************************************)
(* HomePage.                                                               *)
(***************************************************************************)
HomeInit ==
    /\ mounted = FALSE
    /\ categories = <<>>
    /\ products = <<>>
    /\ loading = TRUE
    /\ selectedCategory = Null
    /\ searchQuery = <<>>
    /\ requests = {}
    /\ catPending = FALSE
    /\ sent = <<>>
    /\ arrivals = <<>>

\* the search texts typed into the Header
SearchQueries == { <<>>, <<"p", "h", "o", "n", "e">>, <<",">> }

\* one loadProducts call up to its await: the query of the filter state
\* the call's render saw; known is the number of rows stored at that moment
Request(n, cat, q) ==
    [seq |-> n, query |-> ProductQuery(cat, q), known |-> Len(store)]

issued == Len(sent)

\* the two effects of the first render: loadCategories and loadProducts,
\* then loadProducts again
Mount ==
    /\ ~mounted
    /\ issued + 2 <= MaxRequests
    /\ mounted' = TRUE
    /\ catPending' = TRUE
    /\ loading' = TRUE
    /\ requests' = requests \cup {issued + 1, issued + 2}
    /\ sent' = sent \o <<Request(issued + 1, selectedCategory, searchQuery),
                          Request(issued + 2, selectedCategory, searchQuery)>>
    /\ UNCHANGED <<categories, products, selectedCategory, searchQuery, arrivals>>
    /\ UNCHANGED <<storeVars, formVars>>

\* loadCategories after its await
LoadCategoriesDone ==
    /\ catPending
    /\ catPending' = FALSE
    /\ \E ok \in BOOLEAN :
          categories' = IF ok THEN TopLevelCategories ELSE categories
    /\ UNCHANGED <<mounted, products, loading, selectedCategory, searchQuery,
                   requests, sent, arrivals>>
    /\ UNCHANGED <<storeVars, formVars>>

\* the category buttons: "All" and one per loaded category
CategoryChoices == {Null} \cup {categories[i] : i \in 1..Len(categories)}

\* setSelectedCategory(c), then the effect on [selectedCategory, searchQuery]
SetSelectedCategory(c) ==
    /\ mounted
    /\ c # selectedCategory
    /\ issued < MaxRequests
    /\ selectedCategory' = c
    /\ loading' = TRUE
    /\ requests' = requests \cup {issued + 1}
    /\ sent' = Append(sent, Request(issued + 1, c, searchQuery))
    /\ UNCHANGED <<mounted, categories, products, searchQuery, catPending, arrivals>>
    /\ UNCHANGED <<storeVars, formVars>>

\* onSearch = setSearchQuery(q), then the same effect
SetSearchQuery(q) ==
    /\ mounted
    /\ q # searchQuery
    /\ issued < MaxRequests
    /\ searchQuery' = q
    /\ loading' = TRUE
    /\ requests' = requests \cup {issued + 1}
    /\ sent' = Append(sent, Request(issued + 1, selectedCategory, q))
    /\ UNCHANGED <<mounted, categories, products, selectedCategory, catPending, arrivals>>
    /\ UNCHANGED <<storeVars, formVars>>

\* what loadProducts does with { data } after its await
ApplyData(res, old) == IF res.ok THEN res.data ELSE old

\* loadProducts after its await: the store answers the query of call n
LoadProductsDone(n) ==
    /\ n \in requests
    /\ \E res \in QueryOutcomes(store, sent[n].query) :
          /\ products' = ApplyData(res, products)
          /\ arrivals' = Append(arrivals, [seq |-> n, ok |-> res.ok])
    /\ loading' = FALSE
    /\ requests' = requests \ {n}
    /\ UNCHANGED <<mounted, categories, selectedCategory, searchQuery, catPending,
                   sent>>
    /\ UNCHANGED <<storeVars, formVars>>


(***************************************************************************)
(* The store's side of a write.                                            *)
(***************************************************************************)
\* row with the columns of payload replaced by payload's values
Patch(row, payload) ==
    [f \in DOMAIN row |-> IF f \in DOMAIN payload THEN payload[f] ELSE row[f]]

\* the values the table gives the columns an insert leaves out
ColumnDefaults(id, t) ==
    [id |-> id, seller_id |-> Null, title |-> <<>>, description |-> <<>>,
     price |-> NaN, category |-> "", category_id |-> Null, stock_count |-> NaN,
     condition |-> "new", images |-> <<>>, status |-> "active",
     created_at |-> t, updated_at |-> t]

\* .insert(payload) executed at instant t
ApplyInsert(rows, payload, t) ==
    Append(rows, Patch(ColumnDefaults(Len(rows) + 1, t), payload))

\* the rows an update by seller may touch
MayUpdate(row, seller, policy) == policy => row.seller_id = seller

\* .update(payload).eq('id', id) sent by seller
ApplyUpdate(rows, id, payload, seller, policy) ==
    [i \in 1..Len(rows) |->
        IF rows[i].id = id /\ MayUpdate(rows[i], seller, policy)
        THEN Patch(rows[i], payload)
        ELSE rows[i]]

\* .select('*').eq('id', id).maybeSingle(): the row, or no row
FindProduct(rows, id) == {i \in 1..Len(rows) : rows[i].id = id}

(***************************************************************************)
(* ProductFormPage.                                                        *)
(***************************************************************************)
Txt_150_50 == <<"1", "5", "0", ".", "5", "0">>
Txt_3 == <<"3">>

\* what the user types into the fields
Titles == { <<>>, Txt_Phone }
Descriptions == { <<>>, Txt_Desc }
Prices == { <<>>, Txt_150_50, <<"-", "5">> }
Stocks == { <<>>, Txt_3, <<"3", ".", "7">> }
FormCategories == { "", "electronics" }
Conditions == { "new", "good" }

\* loadProduct's setFormData: the form of a stored row
FormOfRow(data) ==
    [title |-> data.title,
     description |-> data.description,
     price |-> NumToString(data.price),
     category |-> data.category,
     stock_count |-> NumToString(data.stock_count),
     condition |-> data.condition,
     images |-> data.images]

\* loadProduct after its await
LoadProductDone ==
    /\ loadPending
    /\ loadPending' = FALSE
    /\ formLoading' = FALSE
    /\ \E found \in BOOLEAN :
          formData' = IF found /\ FindProduct(store, productId) # {}
                      THEN FormOfRow(store[CHOOSE i \in FindProduct(store, productId) : TRUE])
                      ELSE formData
    /\ UNCHANGED <<profile, productId, submitting, message, imageInput, write,
                   onComplete, submits, outcome, writes, edits>>
    /\ UNCHANGED <<storeVars, homeVars>>

\* the form is rendered once loading is false
FormShown == ~formLoading

\* an edit of a field: nothing else of the page changes
FormFrame ==
    /\ edits < MaxEdits
    /\ edits' = edits + 1
    /\ UNCHANGED <<profile, productId, formLoading, submitting, message,
                   loadPending, write, onComplete, submits, outcome, writes>>
    /\ UNCHANGED <<storeVars, homeVars>>

ChangeTitle(v) ==
    /\ FormShown /\ v # formData.title
    /\ formData' = [formData EXCEPT !.title = v]
    /\ UNCHANGED imageInput /\ FormFrame

ChangeDescription(v) ==
    /\ FormShown /\ v # formData.description
    /\ formData' = [formData EXCEPT !.description = v]
    /\ UNCHANGED imageInput /\ FormFrame

ChangePrice(v) ==
    /\ FormShown /\ v # formData.price
    /\ formData' = [formData EXCEPT !.price = v]
    /\ UNCHANGED imageInput /\ FormFrame

ChangeCategory(v) ==
    /\ FormShown /\ v # formData.category
    /\ formData' = [formData EXCEPT !.category = v]
    /\ UNCHANGED imageInput /\ FormFrame

ChangeStock(v) ==
    /\ FormShown /\ v # formData.stock_count
    /\ formData' = [formData EXCEPT !.stock_count = v]
    /\ UNCHANGED imageInput /\ FormFrame

ChangeCondition(v) ==
    /\ FormShown /\ v # formData.condition
    /\ formData' = [formData EXCEPT !.condition = v]
    /\ UNCHANGED imageInput /\ FormFrame

ChangeImageInput(v) ==
    /\ FormShown /\ v # imageInput
    /\ imageInput' = v
    /\ UNCHANGED formData /\ FormFrame

MaxImages == 5

\* addImage: the Add button and the Enter key of the URL field
AddImage ==
    /\ FormShown
    /\ IF imageInput # "" /\ Len(formData.images) < MaxImages
       THEN /\ formData' = [formData EXCEPT !.images = Append(@, imageInput)]
            /\ imageInput' = ""
       ELSE UNCHANGED <<formData, imageInput>>
    /\ FormFrame

\* removeImage(index), index counted from 0
RemoveImage(index) ==
    /\ FormShown
    /\ index < Len(formData.images)
    /\ formData' = [formData EXCEPT !.images =
                        SubSeq(@, 1, index) \o SubSeq(@, index + 2, Len(@))]
    /\ UNCHANGED imageInput /\ FormFrame


(***************************************************************************)
(* The constraint validation the browser runs on the form's fields before  *)
(* it fires the submit event (required, type="number", min, step,          *)
(* type="url").                                                            *)
(***************************************************************************)
\* a valid floating-point number of an <input type="number">: an optional
\* "-", digits, optionally "." and at least one digit, and nothing else
ValidFloat(s) ==
    LET t == IF s # <<>> /\ Head(s) = "-" THEN Tail(s) ELSE s
        ip == DigitRun(t)
        r1 == Drop(t, Len(ip))
        dot == r1 # <<>> /\ Head(r1) = "."
        fp == IF dot THEN DigitRun(Tail(r1)) ELSE <<>>
    IN  /\ Len(ip) + Len(fp) > 0
        /\ dot => Len(fp) > 0
        /\ Len(t) = Len(ip) + (IF dot THEN 1 + Len(fp) ELSE 0)

\* NumberFieldValid of a field without min="0"
NumberFieldValidNoMin(s, decimals) ==
    /\ s # <<>>
    /\ ValidFloat(s)
    /\ ParseFloat(s).e <= decimals

\* required min="0" step: the value is there, is >= 0 and is a multiple of
\* 10^-decimals
NumberFieldValid(s, decimals) ==
    /\ s # <<>>
    /\ ValidFloat(s)
    /\ ParseFloat(s).m >= 0
    /\ ParseFloat(s).e <= decimals

\* type="url" without required
UrlFieldValid(v) == v = "" \/ v = ImageUrl

PriceDecimals == 2
StockDecimals == 0

FormValid(fd, img) ==
    /\ fd.title # <<>>
    /\ fd.category # ""
    /\ fd.condition # ""
    /\ NumberFieldValid(fd.price, PriceDecimals)
    /\ NumberFieldValid(fd.stock_count, StockDecimals)
    /\ fd.description # <<>>
    /\ UrlFieldValid(img)

(***************************************************************************)
(* handleSubmit.                                                           *)
(***************************************************************************)
\* productData that also stamps created_at
ProductDataStampingCreated(fd, t) ==
    [title |-> fd.title,
     description |-> fd.description,
     price |-> ParseFloat(fd.price),
     category |-> fd.category,
     stock_count |-> ParseInt(fd.stock_count),
     condition |-> fd.condition,
     images |-> fd.images,
     updated_at |-> t,
     created_at |-> t]

\* productData, built at instant t
ProductData(fd, t) ==
    [title |-> fd.title,
     description |-> fd.description,
     price |-> ParseFloat(fd.price),
     category |-> fd.category,
     stock_count |-> ParseInt(fd.stock_count),
     condition |-> fd.condition,
     images |-> fd.images,
     updated_at |-> t]

\* the insert's row with the price read by parseInt
InsertDataIntPrice(fd, t, seller) ==
    [title |-> fd.title,
     description |-> fd.description,
     price |-> ParseInt(fd.price),
     category |-> fd.category,
     stock_count |-> ParseInt(fd.stock_count),
     condition |-> fd.condition,
     images |-> fd.images,
     updated_at |-> t,
     seller_id |-> seller,
     status |-> "active"]

\* { ...productData, seller_id: profile.id, status: 'active' }
InsertData(fd, t, seller) ==
    [title |-> fd.title,
     description |-> fd.description,
     price |-> ParseFloat(fd.price),
     category |-> fd.category,
     stock_count |-> ParseInt(fd.stock_count),
     condition |-> fd.condition,
     images |-> fd.images,
     updated_at |-> t,
     seller_id |-> seller,
     status |-> "active"]

\* the write handleSubmit sends; draft and at record the form and the
\* instant it was built from
WriteOf(fd, t, seller, id) ==
    IF id # 0
    THEN [kind |-> "update", id |-> id, payload |-> ProductData(fd, t),
          seller |-> seller, draft |-> fd, at |-> t]
    ELSE [kind |-> "insert", id |-> 0, payload |-> InsertData(fd, t, seller),
          seller |-> seller, draft |-> fd, at |-> t]

\* a submit event the browser blocks: it reports the invalid field and
\* handleSubmit is not called
SubmitBlocked ==
    /\ FormShown /\ ~submitting
    /\ submits < MaxSubmits
    /\ ~FormValid(formData, imageInput)
    /\ submits' = submits + 1
    /\ outcome' = "ValidationFailed"
    /\ UNCHANGED <<profile, productId, formLoading, submitting, message, formData,
                   imageInput, loadPending, write, onComplete, writes, edits>>
    /\ UNCHANGED <<storeVars, homeVars>>

\* handleSubmit up to its await
HandleSubmit ==
    /\ FormShown /\ ~submitting
    /\ submits < MaxSubmits
    /\ FormValid(formData, imageInput)
    /\ submits' = submits + 1
    /\ IF profile = Null
       THEN /\ outcome' = "ignored"
            /\ UNCHANGED <<submitting, message, write>>
       ELSE /\ submitting' = TRUE
            /\ message' = NoMessage
            /\ write' = WriteOf(formData, now, profile, productId)
            /\ outcome' = "pending"
    /\ UNCHANGED <<profile, productId, formLoading, formData, imageInput,
                   loadPending, onComplete, writes, edits>>
    /\ UNCHANGED <<storeVars, homeVars>>

\* the table after the store has executed write w at instant t
Written(rows, w, t, policy) ==
    IF w.kind = "update"
    THEN ApplyUpdate(rows, w.id, w.payload, w.seller, policy)
    ELSE ApplyInsert(rows, w.payload, t)

SuccessText(w) ==
    IF w.kind = "update" THEN "Product updated successfully!"
    ELSE "Product created successfully!"

\* WriteDone without the finally block: setSubmitting(false) only ends the
\* try block, so a failed write leaves submitting true
WriteDoneWithoutFinally ==
    /\ write.kind # "none"
    /\ \E t \in {now, now + 1}, error \in BOOLEAN :
          /\ now' = t
          /\ IF error
             THEN /\ store' = store
                  /\ message' = [type |-> "error", text |-> "store error"]
                  /\ onComplete' = onComplete
                  /\ outcome' = "error"
                  /\ submitting' = submitting
             ELSE /\ store' = Written(store, write, t, ownerPolicy)
                  /\ message' = [type |-> "success", text |-> SuccessText(write)]
                  /\ onComplete' = "scheduled"
                  /\ outcome' = "success"
                  /\ submitting' = FALSE
          /\ writes' = Append(writes, [w |-> write, error |-> error, done |-> t,
                                       row |-> IF write.kind = "insert"
                                               THEN Len(store) + 1
                                               ELSE write.id])
    /\ write' = NoWrite
    /\ UNCHANGED <<ownerPolicy, batched>>
    /\ UNCHANGED <<profile, productId, formLoading, formData, imageInput,
                   loadPending, submits, edits>>
    /\ UNCHANGED homeVars

\* handleSubmit after its await: the store executes the write, or fails
\* with an error; then the message, the timer and finally
WriteDone ==
    /\ write.kind # "none"
    /\ \E t \in {now, now + 1}, error \in BOOLEAN :
          /\ now' = t
          /\ IF error
             THEN /\ store' = store
                  /\ message' = [type |-> "error", text |-> "store error"]
                  /\ onComplete' = onComplete
                  /\ outcome' = "error"
             ELSE /\ store' = Written(store, write, t, ownerPolicy)
                  /\ message' = [type |-> "success", text |-> SuccessText(write)]
                  /\ onComplete' = "scheduled"
                  /\ outcome' = "success"
          /\ writes' = Append(writes, [w |-> write, error |-> error, done |-> t,
                                       row |-> IF write.kind = "insert"
                                               THEN Len(store) + 1
                                               ELSE write.id])
    /\ submitting' = FALSE
    /\ write' = NoWrite
    /\ UNCHANGED <<ownerPolicy, batched>>
    /\ UNCHANGED <<profile, productId, formLoading, formData, imageInput,
                   loadPending, submits, edits>>
    /\ UNCHANGED homeVars

\* the setTimeout callback
OnCompleteTimer ==
    /\ onComplete = "scheduled"
    /\ onComplete' = "called"
    /\ UNCHANGED <<profile, productId, formLoading, submitting, message, formData,
                   imageInput, loadPending, write, submits, outcome, writes, edits>>
    /\ UNCHANGED <<storeVars, homeVars>>

(***************************************************************************)
(* Other sellers' sessions of the same form: Limit creates, one after the  *)
(* other, each a handleSubmit of a valid draft that the store accepts.     *)
(* The model lets this burst happen once, at any moment.                   *)
(***************************************************************************)
OtherDraft ==
    [title |-> <<"T", "V">>, description |-> <<"t", "v">>, price |-> Txt_150_50,
     category |-> "fashion", stock_count |-> Txt_3, condition |-> "new",
     images |-> <<>>]

\* the table after n such creates, the k-th built and executed at instant
\* t + k
CreateMany(rows, n, t) ==
    LET payload == InsertData(OtherDraft, t, OtherSeller)
    IN  rows \o [k \in 1..n |->
                    Patch(ColumnDefaults(Len(rows) + k, t + k),
                          [payload EXCEPT !.updated_at = t + k])]

OtherSellersCreate ==
    /\ ~batched
    /\ batched' = TRUE
    /\ store' = CreateMany(store, Limit, now)
    /\ now' = now + Limit
    /\ UNCHANGED ownerPolicy
    /\ UNCHANGED <<homeVars, formVars>>


(***************************************************************************)
(* Specifications.                                                         *)
(***************************************************************************)
\* a form filled in through the Change actions
PhoneDraft ==
    [title |-> Txt_Phone, description |-> Txt_Desc, price |-> Txt_150_50,
     category |-> "electronics", stock_count |-> Txt_3, condition |-> "new",
     images |-> <<>>]

StoreInit(stores, policies) ==
    /\ store \in stores
    /\ now = Latest(store)
    /\ ownerPolicy \in policies
    /\ batched = FALSE

\* ProductFormPage after its first render and effect: with a productId,
\* loadProduct is under way
FormInit(profiles, ids, forms) ==
    /\ profile \in profiles
    /\ productId \in ids
    /\ formLoading = (productId # 0)
    /\ loadPending = (productId # 0)
    /\ submitting = FALSE
    /\ message = NoMessage
    /\ formData \in forms
    /\ imageInput = ""
    /\ write = NoWrite
    /\ onComplete = "none"
    /\ submits = 0
    /\ outcome = "none"
    /\ writes = <<>>
    /\ edits = 0

HomeNext ==
    \/ Mount
    \/ LoadCategoriesDone
    \/ \E c \in CategoryChoices : SetSelectedCategory(c)
    \/ \E q \in SearchQueries : SetSearchQuery(q)
    \/ \E n \in requests : LoadProductsDone(n)

EditNext ==
    \/ \E v \in Titles : ChangeTitle(v)
    \/ \E v \in Descriptions : ChangeDescription(v)
    \/ \E v \in Prices : ChangePrice(v)
    \/ \E v \in FormCategories : ChangeCategory(v)
    \/ \E v \in Stocks : ChangeStock(v)
    \/ \E v \in Conditions : ChangeCondition(v)
    \/ \E v \in {"", ImageUrl} : ChangeImageInput(v)
    \/ AddImage
    \/ \E index \in 0..MaxImages : RemoveImage(index)

SubmitNext ==
    \/ HandleSubmit
    \/ WriteDone
    \/ OnCompleteTimer

\* HomePage over a catalogue that other sellers add to
InitHome ==
    /\ StoreInit({CatalogStore}, {TRUE})
    /\ HomeInit
    /\ FormInit({Null}, {0}, {EmptyForm})

NextHome == HomeNext \/ OtherSellersCreate

SpecHome == InitHome /\ [][NextHome]_vars

\* ProductFormPage: a new product, the form empty or already filled in,
\* by a seller or signed out; or one of two stored products edited by its
\* owner or by another seller
InitForm ==
    /\ HomeInit
    /\ \/ /\ StoreInit({LegacyStore}, {TRUE})
          /\ FormInit({Null, "S1"}, {0}, {EmptyForm, PhoneDraft})
       \/ /\ StoreInit({LegacyStore}, BOOLEAN)
          /\ FormInit({"S1", "S2"}, {1, 2}, {EmptyForm})

NextForm == LoadProductDone \/ EditNext \/ SubmitBlocked \/ SubmitNext

SpecForm == InitForm /\ [][NextForm]_vars

\* a seller submits a filled-in form while HomePage lists the catalogue
InitMarket ==
    /\ StoreInit({EmptyStore, CatalogStore}, {TRUE})
    /\ HomeInit
    /\ FormInit({"S1"}, {0}, {PhoneDraft})

NextMarket ==
    \/ Mount
    \/ \E n \in requests : LoadProductsDone(n)
    \/ SubmitNext
    \/ OtherSellersCreate

SpecMarket == InitMarket /\ [][NextMarket]_vars

Spec == SpecMarket

\* an id no row of LegacyStore has: the product was removed, or never was
MissingId == Len(LegacyStore) + 1

\* ProductFormPage with its form on screen: loadProduct, if there was one,
\* has completed, and the seller has typed a draft or nothing yet
FormTyped(profiles, ids, forms) ==
    /\ profile \in profiles
    /\ productId \in ids
    /\ formLoading = FALSE
    /\ loadPending = FALSE
    /\ submitting = FALSE
    /\ message = NoMessage
    /\ formData \in forms
    /\ imageInput = ""
    /\ write = NoWrite
    /\ onComplete = "none"
    /\ submits = 0
    /\ outcome = "none"
    /\ writes = <<>>
    /\ edits = 0

\* the seller corrects the title, the price or the stock count
CorrectNext ==
    \/ \E v \in Titles : ChangeTitle(v)
    \/ \E v \in Prices : ChangePrice(v)
    \/ \E v \in Stocks : ChangeStock(v)

\* a submit of the form in create mode, in edit mode for a stored product
\* whose load brought no data, and in edit mode for an id without a row
InitSubmit ==
    /\ HomeInit
    /\ StoreInit({LegacyStore}, {TRUE})
    /\ FormTyped({Null, "S1"}, {0, 1, MissingId}, {EmptyForm, PhoneDraft})

NextSubmit == CorrectNext \/ SubmitBlocked \/ SubmitNext

\* the store answers every write: the awaited request resolves or rejects
SpecSubmit == InitSubmit /\ [][NextSubmit]_vars /\ WF_vars(WriteDone)

\* the table keeps its rows in the order of their creation
Chronological ==
    \A i \in 1..Len(store) : i > 1 => store[i - 1].created_at <= store[i].created_at


(***************************************************************************)
(* Properties of HomePage.                                                 *)
(***************************************************************************)
Range(s) == {s[i] : i \in 1..Len(s)}

\* every completed call so far got data
AllAnswered == \A i \in 1..Len(arrivals) : arrivals[i].ok

\* the positions in arrivals of the calls that got data
OkArrivals == {i \in 1..Len(arrivals) : arrivals[i].ok}

\* the call whose data products holds, 0 when none has set it
AppliedSeq ==
    IF OkArrivals = {} THEN 0
    ELSE arrivals[CHOOSE i \in OkArrivals : \A j \in OkArrivals : j <= i].seq

\* C1: once every response has arrived (and each brought data), products
\* holds the result of the most recently issued request: the data on
\* display was selected by the query of the latest call.
C1_LatestRequestWins ==
    (mounted /\ requests = {} /\ AllAnswered)
        => sent[AppliedSeq].query = sent[Len(sent)].query

\* C2: the listed products are at most Limit, latest creation first, and
\* products created at the same instant are in ascending order of id.
C2_SortedByCreationThenId ==
    /\ Len(products) <= Limit
    /\ \A i \in 1..Len(products) - 1 :
          \/ store[products[i]].created_at > store[products[i + 1]].created_at
          \/ /\ store[products[i]].created_at = store[products[i + 1]].created_at
             /\ products[i] < products[i + 1]

\* C10: after a loadProducts call whose query failed has completed, the
\* page shows no results (products is empty) and loading is false.
C10_FailureShowsNoResults ==
    (arrivals # <<>> /\ ~arrivals[Len(arrivals)].ok /\ requests = {})
        => (products = <<>> /\ loading = FALSE)


(***************************************************************************)
(* Properties of ProductFormPage.                                          *)
(***************************************************************************)
\* the step in which the store answers the write handleSubmit awaits
WriteAnswered == write.kind # "none" /\ write' = NoWrite

\* a submit event happens in this step
SubmitEvent == submits' = submits + 1

\* the row an update targets is stored and belongs to another seller
NonOwnerUpdate(w) ==
    /\ w.kind = "update"
    /\ w.id \in 1..Len(store)
    /\ store[w.id].seller_id # w.seller

\* C4: an update submitted by a signed-in seller who does not own the
\* product ends in an error (Forbidden) and leaves the stored rows as they
\* were.
C4_NonOwnerUpdateForbidden ==
    [][(WriteAnswered /\ NonOwnerUpdate(write))
          => (message'.type = "error" /\ store' = store)]_vars

\* the columns handleSubmit submits in an update
SubmittedColumns ==
    {"title", "description", "price", "category", "stock_count", "condition",
     "images", "updated_at"}

\* C5: a successful update changes nothing but the submitted columns of the
\* targeted row: its id, seller_id, status, created_at and every other row
\* stay as they were, and no row is added or removed.
C5_UpdateChangesOnlySubmitted ==
    [][(WriteAnswered /\ write.kind = "update" /\ outcome' = "success")
          => /\ Len(store') = Len(store)
             /\ \A i \in 1..Len(store) :
                   /\ i # write.id => store'[i] = store[i]
                   /\ \A f \in DOMAIN store[i] :
                         f \notin SubmittedColumns => store'[i][f] = store[i][f]]_vars

\* a state after a successful update by the owner that changed the price of
\* row 1 and nothing else of the table's frame
C5_Witness ==
    /\ writes # <<>>
    /\ writes[Len(writes)].w.kind = "update"
    /\ ~writes[Len(writes)].error
    /\ store[1].price = Num(15050, 2)
    /\ store[1].price # LegacyStore[1].price
    /\ store[1].seller_id = LegacyStore[1].seller_id
    /\ store[1].created_at = LegacyStore[1].created_at

\* C6: no submit sends a write with more than MaxImages images: a submit
\* of a form that holds more is reported as a validation failure and sends
\* nothing.
C6_NoWriteWithMoreThanFiveImages ==
    [][(SubmitEvent /\ Len(formData.images) > MaxImages)
          => (outcome' = "ValidationFailed" /\ write' = write)]_vars

\* the draft breaks a precondition the claim names: the title is empty, the
\* price is no number >= 0, or the stock count is no integer >= 0
DraftInvalid(fd) ==
    \/ fd.title = <<>>
    \/ IsNaN(ParseFloat(fd.price)) \/ ParseFloat(fd.price).m < 0
    \/ IsNaN(ParseFloat(fd.stock_count)) \/ ParseFloat(fd.stock_count).m < 0
    \/ ParseFloat(fd.stock_count).e > 0

Creates == {i \in 1..Len(writes) : writes[i].w.kind = "insert" /\ ~writes[i].error}

FilterStates == ({Null} \cup Range(TopLevelCategories)) \X SearchQueries

\* filter g is filter f with one more predicate: a category, or a search
Narrows(f, g) ==
    \/ f[1] = Null /\ g[1] # Null /\ g[2] = f[2]
    \/ f[2] = <<>> /\ g[2] # <<>> /\ g[1] = f[1]

\* what the store may answer for each filter state, over the table as it is
Answers == [f \in FilterStates |-> SelectProducts(store, ProductQuery(f[1], f[2]))]

MatchedBy(f) == Matching(store, ProductQuery(f[1], f[2]))

\* C3 as stated: with the limit applied on both sides, every product
\* returned for the narrower filter is returned for the wider one.  (The
\* tables of SpecMarket are all reached before HomePage mounts; the
\* formula is evaluated there.)
C3_NarrowingUnderLimit ==
    ~mounted =>
        \A f \in FilterStates, g \in FilterStates :
            Narrows(f, g) =>
                \A rg \in Answers[g], rf \in Answers[f] : Range(rg) \subseteq Range(rf)

\* C3 as amended: every product returned for the narrower filter matches
\* the wider filter, and is returned for the wider filter whenever the
\* wider filter matches no more than Limit products.
C3_Narrowing ==
    ~mounted =>
        \A f \in FilterStates, g \in FilterStates :
            Narrows(f, g) =>
                \A rg \in Answers[g] :
                    /\ Range(rg) \subseteq MatchedBy(f)
                    /\ Cardinality(MatchedBy(f)) <= Limit
                          => \A rf \in Answers[f] : Range(rg) \subseteq Range(rf)

\* a table on which a wider filter matches more than Limit products while a
\* narrower one returns some, and on which another narrower filter returns
\* some but not all of what its wider filter returns
C3_Witness ==
    /\ ~mounted
    /\ \E f \in FilterStates, g \in FilterStates :
          /\ Narrows(f, g)
          /\ Cardinality(MatchedBy(f)) > Limit
          /\ \E rg \in Answers[g] : rg # <<>>
    /\ \E f \in FilterStates, g \in FilterStates :
          /\ Narrows(f, g)
          /\ Cardinality(MatchedBy(f)) <= Limit
          /\ \E rg \in Answers[g], rf \in Answers[f] :
                rg # <<>> /\ Range(rg) # Range(rf)

\* the request whose data products holds was issued after create i was
\* answered, with no category and no search text
ListedAfter(i) ==
    /\ AppliedSeq # 0
    /\ sent[AppliedSeq].known >= writes[i].row
    /\ sent[AppliedSeq].query.category_id = Null
    /\ sent[AppliedSeq].query.search = <<>>

\* the other active products created no earlier than product p
AtLeastAsNew(p) ==
    {j \in 1..Len(store) :
        /\ j # p
        /\ store[j].status = "active"
        /\ store[j].created_at >= store[p].created_at}

\* C8 as stated: the list of a later loadProducts call without filters
\* holds the created product while the product is active.
C8_CreatedProductListed ==
    \A i \in Creates :
        (ListedAfter(i) /\ store[writes[i].row].status = "active")
            => writes[i].row \in Range(products)

\* C8 as amended: the same, as long as fewer than Limit other active
\* products were created at or after the instant of the created product.
C8_CreatedProductListedWhileRecent ==
    \A i \in Creates :
        (/\ ListedAfter(i)
         /\ store[writes[i].row].status = "active"
         /\ Cardinality(AtLeastAsNew(writes[i].row)) < Limit)
            => writes[i].row \in Range(products)

\* a state in which the list fetched after a create holds the created
\* product, together with products of other sellers
C8_Witness ==
    \E i \in Creates :
        /\ ListedAfter(i)
        /\ writes[i].row \in Range(products)
        /\ Len(products) > 1


(***************************************************************************)
(* Properties of a submit for a missing product, and of the end of         *)
(* handleSubmit.                                                           *)
(***************************************************************************)
\* the write is an update whose id no stored row has
MissingUpdate(w) == w.kind = "update" /\ FindProduct(store, w.id) = {}

\* C11: the answer to an update whose productId matches no stored product
\* gives the user an error message; it does not give the success message
\* and does not schedule onComplete.
C11_MissingProductNotFound ==
    [][(WriteAnswered /\ MissingUpdate(write))
          => /\ message'.type = "error"
             /\ outcome' = "error"
             /\ onComplete' = onComplete]_vars


(***************************************************************************)
(* Properties of the filters of loadProducts.                              *)
(***************************************************************************)
\* text holds q as a substring, letter case aside
Contains(text, q) ==
    \E i \in 1..(Len(text) - Len(q) + 1) :
        \A j \in 1..Len(q) : Lower(text[i + j - 1]) = Lower(q[j])

\* the products the filter state (cat, q) asks for: active, of the selected
\* category if one is selected, holding the search text if there is one
Wanted(cat, q) ==
    {i \in 1..Len(store) :
        /\ store[i].status = "active"
        /\ cat # Null => store[i].category_id = cat
        /\ q # <<>> => \/ Contains(store[i].title, q)
                       \/ Contains(store[i].description, q)}

\* a list in the order of the latest creation first
LatestFirst(d) ==
    \A i \in 1..Len(d) - 1 : store[d[i]].created_at >= store[d[i + 1]].created_at

\* C12: for the filter state of the page, the query of loadProducts has an
\* answer, and every answer is, latest first, exactly the active products
\* of the selected category (if any) that hold the search text (if any), or
\* Limit of them when there are more; over the catalogue, category
\* electronics with search text "phone" gives products 2 and 1 in that order.
C12_FiltersComposeAsAnd ==
    LET answers == SelectProducts(store, ProductQuery(selectedCategory, searchQuery))
        wanted == Wanted(selectedCategory, searchQuery)
    IN  /\ answers # {}
        /\ \A d \in answers :
              /\ Range(d) \subseteq wanted
              /\ Len(d) = Min(Cardinality(wanted), Limit)
              /\ LatestFirst(d)
        /\ SelectProducts(CatalogStore, ProductQuery("electronics", <<"p", "h", "o", "n", "e">>))
              = {<<2, 1>>}


(***************************************************************************)
(* Properties of loadCategories and of the loading flag.                   *)
(***************************************************************************)
\* the step in which the category query is answered with a failure: the
\* call ends and no data was stored
CategoriesFailed == catPending /\ ~catPending' /\ categories' = categories

\* all that HomePage keeps, and with it all that its caller or its user can
\* find out about a call
PageState == <<categories, products, loading, selectedCategory, searchQuery>>

\* C13: when the category query fails, the page's category list is empty
\* and the failure can be found out afterwards: it leaves a trace in what
\* the page keeps.
C13_CategoryFailureReported ==
    [][CategoriesFailed => (categories' = <<>> /\ PageState' # PageState)]_vars


\* C14: loading is true whenever a loadProducts request is in flight, also
\* when several overlap; it is false only when none is pending.
C14_LoadingWhilePending == requests # {} => loading = TRUE


(***************************************************************************)
(* Properties of the end of handleSubmit.                                  *)
(***************************************************************************)
\* the store's answer to the write of this step carried an error
AnsweredWithError == WriteAnswered /\ writes'[Len(writes')].error

\* onComplete is scheduled in this step
Schedules == onComplete' = "scheduled" /\ onComplete # "scheduled"

\* C15: a handleSubmit that set submitting (its profile is signed in)
\* sets it back to false in the end, after a write that succeeded and after
\* one that failed; onComplete is scheduled only by the answer to a write
\* that carried no error; a failed write leaves a message of type error
\* and schedules nothing.
C15_SubmitEnds ==
    /\ submitting ~> ~submitting
    /\ [][Schedules => (WriteAnswered /\ ~AnsweredWithError)]_vars
    /\ [][AnsweredWithError
            => (message'.type = "error" /\ ~submitting' /\ ~Schedules)]_vars
    /\ [][(WriteAnswered /\ ~AnsweredWithError) => ~submitting']_vars

\* a state after a signed-in seller's write failed: submitting is false
\* again, the message is an error, onComplete was not scheduled
C15_Witness ==
    /\ profile # Null
    /\ writes # <<>>
    /\ writes[Len(writes)].error
    /\ ~submitting
    /\ message.type = "error"
    /\ onComplete = "none"

====
